---- MODULE Spec2Model ----
(***************************************************************************)
(* Model of the PSE API client (src/pse_api.py) and of the parts of the    *)
(* Streamlit front end (src/streamlit_app.py) that drive it: the page      *)
(* fetcher with its retry loop, the pagination walker, the expected-count  *)
(* estimator and the date-range validation of main().                      *)
(***************************************************************************)
EXTENDS Integers, Sequences, FiniteSets, TLC

(***************************************************************************)
(* Configuration (src/pse_api.py, lines 22-33)                             *)
(***************************************************************************)
PSE_API_BASE_URL == "https://api.raporty.pse.pl/api/gen-jw"

MAX_RETRIES == 3

RETRY_BACKOFF_MULTIPLIER == 2

MIN_RETRY_DELAY == 1

DEFAULT_PAGE_SIZE == 100000

FILTER_TYPE_ALL == "Wszystkie dane"

FILTER_TYPE_BY_POWER_PLANT == "Wedlug elektrowni"

FILTER_TYPE_BY_RESOURCE_CODE == "Wedlug kodow jednostek"

(* Plant names are written in ASCII (Polish diacritics dropped); distinct *)
(* names of the source stay distinct.                                    *)
POWER_PLANT_TO_RESOURCES ==
     ("Belchatow" :> <<"BEL 2-02", "BEL 2-03", "BEL 2-04", "BEL 2-05", "BEL 4-06", "BEL 4-07", "BEL 4-08", "BEL 4-09", "BEL 4-10", "BEL 4-11", "BEL 4-12", "BEL 4-14">>)
  @@ ("Chorzow" :> <<"CHZ21S01", "CHZ21S02">>)
  @@ ("Dolna Odra" :> <<"DOD 2-05", "DOD 4-07", "DOD 4-08", "DOD_2-06">>)
  @@ ("EC Czechnica-2" :> <<"CZN_1S01">>)
  @@ ("EC Rzeszow" :> <<"REC 1-01">>)
  @@ ("EC Siekierki" :> <<"WSIB1-07", "WSIB1-08", "WSIB1-09", "WSIB1-10">>)
  @@ ("EC Stalowa Wola" :> <<"STW42S12">>)
  @@ ("EC Wrotkow" :> <<"LEC 1-01">>)
  @@ ("EC Wloclawek" :> <<"WLC_2S01">>)
  @@ ("EC Lodz-4" :> <<"LD4 1-03">>)
  @@ ("EC Zeran 2" :> <<"WZE22-20", "WZE22S20">>)
  @@ ("Gryfino" :> <<"EGF_4S09", "EGF_4S10">>)
  @@ ("Jaworzno 2 JWCD" :> <<"JW2_4-07">>)
  @@ ("Jaworzno 3" :> <<"JW3 1-03", "JW3 2-01", "JW3 2-02", "JW3 2-04", "JW3 2-05", "JW3 2-06">>)
  @@ ("Karolin 2" :> <<"KAR 1-03", "KAR_1-02">>)
  @@ ("Katowice" :> <<"KAT 1-01">>)
  @@ ("Kozienice 1" :> <<"KOZ11S02", "KOZ11S06", "KOZ12S01", "KOZ12S03", "KOZ12S04", "KOZ12S05", "KOZ12S07", "KOZ12S08">>)
  @@ ("Kozienice 2" :> <<"KOZ24S09", "KOZ24S10", "KOZ24S11">>)
  @@ ("Krakow Leg" :> <<"KLE 1-01", "KLE 1-02", "KLE 1-03", "KLE 1-04">>)
  @@ ("Opole" :> <<"OPL 1-01", "OPL 1-02", "OPL 4-03", "OPL 4-04", "OPL 4-05", "OPL 4-06">>)
  @@ ("Ostroleka B" :> <<"OSB_1S03", "OSB_2S01", "OSB_2S02">>)
  @@ ("Porabka Zar" :> <<"PZR 2-01", "PZR 2-02", "PZR 2-03", "PZR 2-04">>)
  @@ ("Polaniec" :> <<"POL_2S02", "POL_2S03", "POL_2S04", "POL_4S05", "POL_4S06", "POL_4S07">>)
  @@ ("Polaniec 2-Pasywna" :> <<"POL24S09">>)
  @@ ("Patnow 2" :> <<"PAT24S09">>)
  @@ ("Plock" :> <<"PLO_4S01">>)
  @@ ("Rybnik" :> <<"RYB 2-05", "RYB 2-06", "RYB 4-07", "RYB 4-08">>)
  @@ ("Siersza" :> <<"SIA 1-01", "SIA 1-02">>)
  @@ ("Skawina" :> <<"SNA11S03", "SNA22S05", "SNA22S06">>)
  @@ ("Turow" :> <<"TUR 1-01", "TUR 2-02", "TUR 2-03", "TUR 2-04", "TUR 2-05", "TUR 2-06", "TUR 4-11">>)
  @@ ("Wroclaw" :> <<"WROB1-02", "WROB1-03">>)
  @@ ("Zielona Gora" :> <<"ZGR22S01">>)
  @@ ("Lagisza" :> <<"LGA 4-10">>)
  @@ ("Laziska 3" :> <<"LZA31-09", "LZA31-10", "LZA32-11", "LZA32-12">>)
  @@ ("Zarnowiec" :> <<"ZRN_4-01", "ZRN_4-02", "ZRN_4-03", "ZRN_4-04">>)

\* variant of ALL_RESOURCE_CODES: the list holds the codes of the first plant
\* only
ALL_RESOURCE_CODES_FirstPlantOnly == POWER_PLANT_TO_RESOURCES["Belchatow"]

ALL_RESOURCE_CODES ==
  << "BEL 2-02", "BEL 2-03", "BEL 2-04", "BEL 2-05", "BEL 4-06", "BEL 4-07",
     "BEL 4-08", "BEL 4-09", "BEL 4-10", "BEL 4-11", "BEL 4-12", "BEL 4-14",
     "CHZ21S01", "CHZ21S02", "CZN_1S01", "DOD 2-05", "DOD 4-07", "DOD 4-08",
     "DOD_2-06", "EGF_4S09", "EGF_4S10", "JW2_4-07", "JW3 1-03", "JW3 2-01",
     "JW3 2-02", "JW3 2-04", "JW3 2-05", "JW3 2-06", "KAR 1-03", "KAR_1-02",
     "KAT 1-01", "KLE 1-01", "KLE 1-02", "KLE 1-03", "KLE 1-04", "KOZ11S02",
     "KOZ11S06", "KOZ12S01", "KOZ12S03", "KOZ12S04", "KOZ12S05", "KOZ12S07",
     "KOZ12S08", "KOZ24S09", "KOZ24S10", "KOZ24S11", "LD4 1-03", "LEC 1-01",
     "LGA 4-10", "LZA31-09", "LZA31-10", "LZA32-11", "LZA32-12", "OPL 1-01",
     "OPL 1-02", "OPL 4-03", "OPL 4-04", "OPL 4-05", "OPL 4-06", "OSB_1S03",
     "OSB_2S01", "OSB_2S02", "PAT24S09", "PLO_4S01", "POL24S09", "POL_2S02",
     "POL_2S03", "POL_2S04", "POL_4S05", "POL_4S06", "POL_4S07", "PZR 2-01",
     "PZR 2-02", "PZR 2-03", "PZR 2-04", "REC 1-01", "RYB 2-05", "RYB 2-06",
     "RYB 4-07", "RYB 4-08", "SIA 1-01", "SIA 1-02", "SNA11S03", "SNA22S05",
     "SNA22S06", "STW42S12", "TUR 1-01", "TUR 2-02", "TUR 2-03", "TUR 2-04",
     "TUR 2-05", "TUR 2-06", "TUR 4-11", "WLC_2S01", "WROB1-02", "WROB1-03",
     "WSIB1-07", "WSIB1-08", "WSIB1-09", "WSIB1-10", "WZE22-20", "WZE22S20",
     "ZGR22S01", "ZRN_4-01", "ZRN_4-02", "ZRN_4-03", "ZRN_4-04" >>

(***************************************************************************)
(* Bounds of the model                                                     *)
(***************************************************************************)
\* a server stops handing out continuation links after this many pages
MaxPages == 3

\* the dates a request may name are 2024-01-01 .. 2024-01-01 + MaxDays
MaxDays == 1

(***************************************************************************)
(* Python values                                                           *)
(***************************************************************************)
\* Python's None where a string (a URL) is expected
None == "None"

\* a key that is absent from a JSON object, where a string is expected
Missing == "<missing>"

\* a list value, an absent key, JSON null and Python's None where a list is
\* expected
JList(s) == [t |-> "list", v |-> s]

JMissing == [t |-> "missing", v |-> <<>>]

JNull == [t |-> "null", v |-> <<>>]

PyNone == [t |-> "none", v |-> <<>>]

\* dict.get("value", []) on a JSON object
GetValue(d) == IF d.value.t = "missing" THEN JList(<<>>) ELSE d.value

\* JSON null where a string is expected
NullLink == "<null>"

\* dict.get("nextLink", None) on a JSON object
GetNextLink(d) == IF d.nextLink \in {Missing, NullLink} THEN None ELSE d.nextLink

\* truth value of a URL: None and "" are falsy
Truthy(v) == v \notin {None, ""}

\* truth value of an optional list: None and [] are falsy
NonEmptyList(l) == l.t = "list" /\ l.v /= <<>>

\* int(a / b) for an exact quotient's operands: truncation toward zero
PyInt(a, b) == IF a >= 0 THEN a \div b ELSE -((-a) \div b)

RECURSIVE SumSeq(_)
SumSeq(s) == IF s = <<>> THEN 0 ELSE Head(s) + SumSeq(Tail(s))

RECURSIVE Flatten(_)
Flatten(ss) == IF ss = <<>> THEN <<>> ELSE Head(ss) \o Flatten(Tail(ss))

RECURSIVE Pow(_, _)
Pow(b, e) == IF e = 0 THEN 1 ELSE b * Pow(b, e - 1)

(***************************************************************************)
(* datetime.date: a date is its proleptic Gregorian ordinal, and the       *)
(* difference of two dates is a timedelta of whole days.                   *)
(***************************************************************************)
IsLeap(y) == (y % 4 = 0) /\ ((y % 100 /= 0) \/ (y % 400 = 0))

DaysInMonth(y, m) ==
  IF m = 2 THEN (IF IsLeap(y) THEN 29 ELSE 28)
  ELSE IF m \in {4, 6, 9, 11} THEN 30 ELSE 31

RECURSIVE DaysBeforeMonth(_, _)
DaysBeforeMonth(y, m) ==
  IF m = 1 THEN 0 ELSE DaysBeforeMonth(y, m - 1) + DaysInMonth(y, m - 1)

DaysBeforeYear(y) ==
  (y - 1) * 365 + ((y - 1) \div 4) - ((y - 1) \div 100) + ((y - 1) \div 400)

toordinal(y, m, d) == DaysBeforeYear(y) + DaysBeforeMonth(y, m) + d

\* the dates a caller may pass: 2024-01-01 and the MaxDays days after it
Dates == { toordinal(2024, 1, 1) + k : k \in 0..MaxDays }

(***************************************************************************)
(* The HTTP server, as the client sees it                                  *)
(***************************************************************************)
\* outcomes of requests.get / raise_for_status / response.json() that raise
\* a RequestException or a JSONDecodeError
CaughtKinds == {"transport", "status", "not_json"}

\* continuation links a server may return
NextLinks == {"https://api.raporty.pse.pl/api/gen-jw?$after=A",
              "https://api.raporty.pse.pl/api/gen-jw?$after=B"}

\* the "value" member of a well-formed page
PageValues == {JList(<<>>), JList(<<"r1">>), JList(<<"r2", "r1">>), JMissing}

\* the "nextLink" member a server may send with page number n
PageLinks(n) == {Missing, NullLink, ""} \cup (IF n < MaxPages THEN NextLinks ELSE {})

\* JSON objects that fetch_pse_page accepts as a page
GoodBodies(n) == [value : PageValues, nextLink : PageLinks(n)]

\* JSON objects whose "value" member is null
NullValueBodies(n) == [value : {JNull}, nextLink : PageLinks(n)]

\* what fetch_pse_page and fetch_all_pse_data hold when there is no page
NoData == [value |-> PyNone, nextLink |-> None]

(***************************************************************************)
(* fetch_pse_page (src/pse_api.py, lines 97-157)                           *)
(***************************************************************************)
NoParams == [given |-> FALSE, filter |-> <<0, 0>>, orderby |-> "", first |-> 0]

NoRequest == [url |-> None, params |-> NoParams]

\* lines 121-134: the GET that is issued
RequestFor(url, fparams, is_first_request) ==
  [url |-> url,
   params |-> IF is_first_request /\ fparams.given THEN fparams ELSE NoParams]

\* variant of CanRetry: the comparison is off by one
CanRetry_OffByOne(rc) == rc <= MAX_RETRIES

\* line 147
CanRetry(rc) == rc < MAX_RETRIES

\* line 148
RetryDelay(rc) == MIN_RETRY_DELAY * Pow(RETRY_BACKOFF_MULTIPLIER, rc)

\* variant of PageResult: the tuple of a retried call is lost on the way out
\* of the recursion
PageResult_LostOnRetry(body, rc) ==
  IF rc > 0
    THEN [data |-> NoData, next_link |-> None, error_occurred |-> TRUE]
    ELSE [data |-> body, next_link |-> GetNextLink(body),
          error_occurred |-> FALSE]

\* lines 137-144: the tuple returned for a page that parsed
PageResult(body, rc) ==
  [data |-> body, next_link |-> GetNextLink(body), error_occurred |-> FALSE]

\* line 157
ErrorResult == [data |-> NoData, next_link |-> None, error_occurred |-> TRUE]

(***************************************************************************)
(* fetch_all_pse_data (src/pse_api.py, lines 160-238)                      *)
(***************************************************************************)
\* lines 185-198
InitialParams(sd, ed, page_size) ==
  [given |-> TRUE,
   filter |-> <<sd, ed>>,
   orderby |-> "business_date asc,resource_code asc,operating_mode asc,dtime_utc asc",
   first |-> page_size]

\* variant of Extend: the page replaces the accumulated list
Extend_Replace(all, records) == records

\* variant of Extend: the page is put in front of the accumulated list
Extend_Prepend(all, records) == records \o all

\* line 222
Extend(all, records) == all \o records

\* variant of HasNextPage: tests for None instead of truth
HasNextPage_NotNone(link) == link /= None

\* line 231: the test that decides whether the walk goes on
HasNextPage(link) == Truthy(link)

\* variant of FetchArgs: the walker's parameters go with every request
FetchArgs_AlwaysParams(url, use_p, p) == RequestFor(url, p, TRUE)

\* lines 210-214: the call of fetch_pse_page made for the current page
FetchArgs(url, use_p, p) ==
  RequestFor(url, IF use_p THEN p ELSE NoParams, use_p)

(***************************************************************************)
(* calculate_expected_intervals (src/pse_api.py, lines 300-352)            *)
(***************************************************************************)
\* the codes of the selected plants that the registry knows (lines 333-336)
RECURSIVE ResourceSet(_)
ResourceSet(plants) ==
  IF plants = <<>> THEN {}
  ELSE (IF Head(plants) \in DOMAIN POWER_PLANT_TO_RESOURCES
        THEN { POWER_PLANT_TO_RESOURCES[Head(plants)][i] :
                 i \in 1..Len(POWER_PLANT_TO_RESOURCES[Head(plants)]) }
        ELSE {})
       \cup ResourceSet(Tail(plants))

\* variant of TimeIntervals: the interval that starts at end_date is not
\* counted
TimeIntervals_NoPlusOne(sd, ed) ==
  LET delta_days == ed - sd
      total_seconds == delta_days * 86400
      total_minutes == total_seconds \div 60
  IN  PyInt(total_minutes, 15)

\* variant of TimeIntervals: the minutes are not divided into 15-minute
\* intervals
TimeIntervals_Minutes(sd, ed) ==
  LET delta_days == ed - sd
      total_seconds == delta_days * 86400
      total_minutes == total_seconds \div 60
  IN  total_minutes + 1

\* lines 321-323
TimeIntervals(sd, ed) ==
  LET delta_days == ed - sd
      total_seconds == delta_days * 86400
      total_minutes == total_seconds \div 60
  IN  PyInt(total_minutes, 15) + 1

\* the codes of the selected plants as a list, one entry per listed plant
RECURSIVE ResourceList(_)
ResourceList(plants) ==
  IF plants = <<>> THEN <<>>
  ELSE (IF Head(plants) \in DOMAIN POWER_PLANT_TO_RESOURCES
        THEN POWER_PLANT_TO_RESOURCES[Head(plants)]
        ELSE <<>>)
       \o ResourceList(Tail(plants))

\* variant of NumResources: an incomplete selection counts no resource
NumResources_ZeroFallback(filter_type, selected_power_plants, selected_resources) ==
  IF filter_type = FILTER_TYPE_ALL
    THEN Len(ALL_RESOURCE_CODES)
  ELSE IF filter_type = FILTER_TYPE_BY_POWER_PLANT
          /\ NonEmptyList(selected_power_plants)
    THEN Cardinality(ResourceSet(selected_power_plants.v))
  ELSE IF filter_type = FILTER_TYPE_BY_RESOURCE_CODE
          /\ NonEmptyList(selected_resources)
    THEN Len(selected_resources.v)
  ELSE 0

\* variant of NumResources: the codes of the plants are collected in a list,
\* not in a set
NumResources_PlantList(filter_type, selected_power_plants, selected_resources) ==
  IF filter_type = FILTER_TYPE_ALL
    THEN Len(ALL_RESOURCE_CODES)
  ELSE IF filter_type = FILTER_TYPE_BY_POWER_PLANT
          /\ NonEmptyList(selected_power_plants)
    THEN Len(ResourceList(selected_power_plants.v))
  ELSE IF filter_type = FILTER_TYPE_BY_RESOURCE_CODE
          /\ NonEmptyList(selected_resources)
    THEN Len(selected_resources.v)
  ELSE Len(ALL_RESOURCE_CODES)

\* lines 326-349
NumResources(filter_type, selected_power_plants, selected_resources) ==
  IF filter_type = FILTER_TYPE_ALL
    THEN Len(ALL_RESOURCE_CODES)
  ELSE IF filter_type = FILTER_TYPE_BY_POWER_PLANT
          /\ NonEmptyList(selected_power_plants)
    THEN Cardinality(ResourceSet(selected_power_plants.v))
  ELSE IF filter_type = FILTER_TYPE_BY_RESOURCE_CODE
          /\ NonEmptyList(selected_resources)
    THEN Len(selected_resources.v)
  ELSE Len(ALL_RESOURCE_CODES)

\* line 352
calculate_expected_intervals(sd, ed, filter_type, plants, resources) ==
  TimeIntervals(sd, ed) * NumResources(filter_type, plants, resources)

\* the inputs the estimator is applied to
FilterTypes ==
  {FILTER_TYPE_ALL, FILTER_TYPE_BY_POWER_PLANT, FILTER_TYPE_BY_RESOURCE_CODE,
   "inny"}

PlantSelections ==
  {PyNone, JList(<<>>), JList(<<"Opole">>), JList(<<"Opole", "Opole">>),
   JList(<<"Nowa Elektrownia">>), JList(<<"Opole", "Rybnik">>),
   JList(<<"Opole", "Nowa Elektrownia", "Opole">>)}

ResourceSelections ==
  {PyNone, JList(<<>>), JList(<<"OPL 1-01">>),
   JList(<<"OPL 1-01", "RYB 2-05">>)}

ExpectedArgs ==
  [start_date : Dates, end_date : Dates, filter_type : FilterTypes,
   selected_power_plants : PlantSelections,
   selected_resources : ResourceSelections]

NoArgs ==
  [start_date |-> 0, end_date |-> 0, filter_type |-> "",
   selected_power_plants |-> PyNone, selected_resources |-> PyNone]

(***************************************************************************)
(* calculate_time_coverage (src/pse_api.py, lines 241-297)                 *)
(***************************************************************************)
\* a datetime: the ordinal of its date and the second of its day
Dt(o, s) == [t |-> "dt", o |-> o, s |-> s]

\* None where a datetime is expected
NoDt == [t |-> "none", o |-> 0, s |-> 0]

\* The value of a record's dtime or dtime_utc member.  "str" is the text
\* "y-mo-d H:M:S" with these numbers in its digit positions, "text" is a
\* string of another shape (such as "2024-01-01T00:00:00"), "number" is a
\* value that is not a string, "empty" is "", "null" is JSON null and
\* "absent" is a record without the member.
FStr(y, mo, d, H, M, S) ==
  [k |-> "str", y |-> y, mo |-> mo, d |-> d, H |-> H, M |-> M, S |-> S]

FOther(kind) ==
  [k |-> kind, y |-> 0, mo |-> 0, d |-> 0, H |-> 0, M |-> 0, S |-> 0]

\* truth value of item.get("dtime"): None and "" are falsy
FTruthy(v) == v.k \in {"str", "text", "number"}

\* variant of DtimeOf: dtime_utc is preferred
DtimeOf_UtcFirst(item) ==
  IF FTruthy(item.dtime_utc) THEN item.dtime_utc ELSE item.dtime

\* line 257: item.get("dtime") or item.get("dtime_utc")
DtimeOf(item) == IF FTruthy(item.dtime) THEN item.dtime ELSE item.dtime_utc

\* line 259
HasDtime(item) == FTruthy(item.dtime) \/ FTruthy(item.dtime_utc)

\* lines 256-260
RECURSIVE DtimeStrings(_)
DtimeStrings(all_data) ==
  IF all_data = <<>> THEN <<>>
  ELSE (IF HasDtime(Head(all_data)) THEN <<DtimeOf(Head(all_data))>> ELSE <<>>)
       \o DtimeStrings(Tail(all_data))

\* variant of StrptimeOk: the numbers of the text are not range-checked
StrptimeOk_NoRangeCheck(v) == v.k = "str"

\* line 271: datetime.strptime(dt, "%Y-%m-%d %H:%M:%S") returns a datetime;
\* otherwise it raises ValueError (TypeError for a value that is no string)
StrptimeOk(v) ==
  /\ v.k = "str"
  /\ v.y \in 1..9999
  /\ v.mo \in 1..12
  /\ v.d \in 1..DaysInMonth(v.y, IF v.mo \in 1..12 THEN v.mo ELSE 1)
  /\ v.H \in 0..23
  /\ v.M \in 0..59
  /\ v.S \in 0..59

\* line 271: the datetime that strptime returns
Strptime(v) ==
  Dt(toordinal(v.y, IF v.mo \in 1..12 THEN v.mo ELSE 1, v.d),
     v.H * 3600 + v.M * 60 + v.S)

\* lines 266-275: the values that parse, in order
RECURSIVE DtimeObjects(_)
DtimeObjects(strings) ==
  IF strings = <<>> THEN <<>>
  ELSE (IF StrptimeOk(Head(strings)) THEN <<Strptime(Head(strings))>> ELSE <<>>)
       \o DtimeObjects(Tail(strings))

\* a < b on datetimes
DtLess(a, b) == a.o < b.o \/ (a.o = b.o /\ a.s < b.s)

\* line 285: min of a non-empty list of datetimes
RECURSIVE Earliest(_)
Earliest(objs) ==
  IF Len(objs) = 1 THEN Head(objs)
  ELSE LET rest == Earliest(Tail(objs))
       IN  IF DtLess(rest, Head(objs)) THEN rest ELSE Head(objs)

\* variant of Latest: min is taken instead of max
Latest_Min(objs) == Earliest(objs)

\* line 286: max of a non-empty list of datetimes
RECURSIVE Latest(_)
Latest(objs) ==
  IF Len(objs) = 1 THEN Head(objs)
  ELSE LET rest == Latest(Tail(objs))
       IN  IF DtLess(Head(objs), rest) THEN rest ELSE Head(objs)

\* (a - b).total_seconds()
TotalSeconds(a, b) == (a.o - b.o) * 86400 + (a.s - b.s)

\* a float that is the quotient of two spans: num / den, with den > 0
Frac(num, den) == [num |-> num, den |-> den]

\* 0.0
ZeroFrac == Frac(0, 1)

\* variant of FracMin1: the quotient is not capped at 1.0
FracMin1_Missing(f) == f

\* line 291: min(x, 1.0)
FracMin1(f) == IF f.num >= f.den THEN Frac(f.den, f.den) ELSE f

\* variant of FracMax0: the result is not clamped at 0.0
FracMax0_Missing(f) == f

\* line 293: max(x, 0.0)
FracMax0(f) == IF f.num <= 0 THEN Frac(0, f.den) ELSE f

\* the float values compare as their quotients do
FracLeq(a, b) ==
  IF a.den = b.den THEN a.num <= b.num
  ELSE a.num * b.den <= b.num * a.den

FracIsZero(f) == f.num = 0

\* variant of Progress: a range without width counts as covered
Progress_DegenerateIsFull(covered_span, total_span) ==
  IF total_span > 0 THEN FracMin1(Frac(covered_span, total_span))
  ELSE Frac(1, 1)

\* line 291
Progress(covered_span, total_span) ==
  IF total_span > 0 THEN FracMin1(Frac(covered_span, total_span))
  ELSE ZeroFrac

\* lines 254, 263, 282
NoCoverage == [fraction |-> ZeroFrac, earliest |-> NoDt, latest |-> NoDt]

\* lines 253-297
calculate_time_coverage(all_data, range_start, range_end) ==
  IF all_data = <<>> THEN NoCoverage
  ELSE IF DtimeStrings(all_data) = <<>> THEN NoCoverage
  ELSE IF DtimeObjects(DtimeStrings(all_data)) = <<>> THEN NoCoverage
  ELSE LET dtime_objects == DtimeObjects(DtimeStrings(all_data))
           earliest == Earliest(dtime_objects)
           latest == Latest(dtime_objects)
           total_span == TotalSeconds(range_end, range_start)
           covered_span == TotalSeconds(latest, range_start)
       IN  [fraction |-> FracMax0(Progress(covered_span, total_span)),
            earliest |-> earliest,
            latest |-> latest]

\* the records the estimator is applied to
Record(dtime, dtime_utc) == [dtime |-> dtime, dtime_utc |-> dtime_utc]

RecordSamples ==
  {Record(FStr(2024, 1, 1, 0, 0, 0), FOther("absent")),
   Record(FStr(2024, 1, 1, 12, 0, 0), FStr(2024, 1, 1, 11, 0, 0)),
   Record(FStr(2024, 1, 2, 0, 0, 0), FOther("null")),
   Record(FOther("absent"), FStr(2024, 1, 2, 12, 0, 0)),
   Record(FOther("empty"), FStr(2023, 12, 31, 12, 0, 0)),
   Record(FStr(2024, 13, 1, 0, 0, 0), FStr(2024, 1, 2, 0, 0, 0)),
   Record(FStr(2024, 2, 30, 0, 0, 0), FOther("absent")),
   Record(FOther("text"), FOther("absent")),
   Record(FOther("number"), FOther("empty")),
   Record(FOther("absent"), FOther("absent"))}

\* the bounds of the range it is applied to
RangeBounds ==
  {Dt(toordinal(2024, 1, 1), 0), Dt(toordinal(2024, 1, 1), 43200),
   Dt(toordinal(2024, 1, 1), 86399), Dt(toordinal(2024, 1, 2), 0)}

(***************************************************************************)
(* The range splitter of fetch_pse_data_with_auto_split.  pse_api.py has   *)
(* no such function (streamlit_app.py imports it at line 25 and calls it   *)
(* at line 440); it is written here after section 4.3 of the               *)
(* specification.                                                          *)
(***************************************************************************)
\* the safety ceiling on the expected record count of one walk; the value
\* is the per-request ceiling of the server
MAX_EXPECTED_ENTRIES == 100000

CeilDiv(a, b) == (a + b - 1) \div b

\* "ceil(expected_total / MAX_EXPECTED_ENTRIES)", one sub-range when the
\* whole range fits
NumSubRanges(expected_total) ==
  IF expected_total <= MAX_EXPECTED_ENTRIES THEN 1
  ELSE CeilDiv(expected_total, MAX_EXPECTED_ENTRIES)

SubRange(s, e) == [start |-> s, end |-> e]

\* "that many contiguous day-aligned chunks of equal (or near-equal, last
\* chunk absorbing remainder) length"
SubRanges(sd, ed, n) ==
  LET total_days == (ed - sd) + 1
      chunk_days == total_days \div n
  IN  [i \in 1..n |->
         SubRange(sd + (i - 1) * chunk_days,
                  IF i = n THEN ed ELSE sd + i * chunk_days - 1)]

NoSubRanges == <<>>

\* the sub-ranges of a request
SplitDateRange(a) ==
  SubRanges(a.start_date, a.end_date,
            NumSubRanges(calculate_expected_intervals(
                           a.start_date, a.end_date, a.filter_type,
                           a.selected_power_plants, a.selected_resources)))

\* the expected record count of one sub-range of request a
SubRangeExpected(a, r) ==
  calculate_expected_intervals(r.start, r.end, a.filter_type,
                               a.selected_power_plants, a.selected_resources)

\* the longest requested range, in days after its first day
MaxSplitDays == 30

\* the filters of the requests that are split
SplitFilters ==
  {[filter_type |-> FILTER_TYPE_ALL,
    selected_power_plants |-> PyNone, selected_resources |-> PyNone],
   [filter_type |-> FILTER_TYPE_BY_POWER_PLANT,
    selected_power_plants |-> JList(<<"Opole", "Rybnik">>),
    selected_resources |-> PyNone],
   [filter_type |-> FILTER_TYPE_BY_POWER_PLANT,
    selected_power_plants |-> JList(<<"Nowa Elektrownia">>),
    selected_resources |-> PyNone],
   [filter_type |-> FILTER_TYPE_BY_RESOURCE_CODE,
    selected_power_plants |-> PyNone,
    selected_resources |-> JList(<<"OPL 1-01", "RYB 2-05">>)]}

\* valid requests (start_date <= end_date, lines 253-255)
SplitArgs ==
  { [start_date |-> toordinal(2024, 2, 1),
     end_date |-> toordinal(2024, 2, 1) + k,
     filter_type |-> f.filter_type,
     selected_power_plants |-> f.selected_power_plants,
     selected_resources |-> f.selected_resources] :
      k \in 0..MaxSplitDays, f \in SplitFilters }

(***************************************************************************)
(* detect_new_labels.  pse_api.py has no such function                     *)
(* (test_pse_api.py imports it at line 9, streamlit_app.py calls it at     *)
(* line 476); it is written here after section 4.6 of the specification.   *)
(***************************************************************************)
\* a record of the API, with the two fields the detector reads; None stands
\* for a null or missing field
LabelRecord(power_plant, resource_code) ==
  [power_plant |-> power_plant, resource_code |-> resource_code]

\* the labels of the records below, in the order of Python's string
\* comparison (by code point: space, digits, upper case, lower case)
LexOrder ==
  <<"BEL 2-02", "Belchatow", "Inna Elektrownia", "NEW 1-01", "NEW 1-02",
    "NEW 1-03", "Nowa Elektrownia", "OPL 1-01", "OPL 9-99", "ORPHAN 1-01",
    "Opole">>

LexRank(s) == CHOOSE i \in 1..Len(LexOrder) : LexOrder[i] = s

\* variant of SortedList: the list is in descending order
RECURSIVE SortedList_Descending(_)
SortedList_Descending(S) ==
  IF S = {} THEN <<>>
  ELSE LET m == CHOOSE x \in S : \A y \in S : LexRank(y) <= LexRank(x)
       IN  <<m>> \o SortedList_Descending(S \ {m})

\* sorted(set): every member once, in lexicographic order
RECURSIVE SortedList(_)
SortedList(S) ==
  IF S = {} THEN <<>>
  ELSE LET m == CHOOSE x \in S : \A y \in S : LexRank(x) <= LexRank(y)
       IN  <<m>> \o SortedList(S \ {m})

\* "a plant name is new if absent from the registry's plant set"
IsNewPlant(plant) == plant /= None /\ plant \notin DOMAIN POWER_PLANT_TO_RESOURCES

\* "a resource code is new if absent from the registry's flattened code
\* set, independent of which plant it is attached to"
IsNewCode(code) ==
  code /= None /\ code \notin {ALL_RESOURCE_CODES[i] : i \in 1..Len(ALL_RESOURCE_CODES)}

\* variant of InMapping: only the records of new plants enter the mapping
InMapping_OnlyNewPlants(item) ==
  /\ item.power_plant /= None
  /\ item.resource_code /= None
  /\ IsNewPlant(item.power_plant)

\* "contributes to new_mapping only when both plant and code are present
\* and at least one of them is new"
InMapping(item) ==
  /\ item.power_plant /= None
  /\ item.resource_code /= None
  /\ (IsNewPlant(item.power_plant) \/ IsNewCode(item.resource_code))

NoLabels ==
  [has_new_labels |-> FALSE, new_power_plants |-> <<>>,
   new_resource_codes |-> <<>>, new_mapping |-> <<>>]

detect_new_labels(records) ==
  LET idx == 1..Len(records)
      new_plants == {records[i].power_plant : i \in {j \in idx : IsNewPlant(records[j].power_plant)}}
      new_codes == {records[i].resource_code : i \in {j \in idx : IsNewCode(records[j].resource_code)}}
      mapped == {records[i].power_plant : i \in {j \in idx : InMapping(records[j])}}
      codes_of(p) == {records[i].resource_code :
                        i \in {j \in idx : InMapping(records[j]) /\ records[j].power_plant = p}}
  IN  [has_new_labels |-> (new_plants /= {} \/ new_codes /= {}),
       new_power_plants |-> SortedList(new_plants),
       new_resource_codes |-> SortedList(new_codes),
       new_mapping |-> [p \in mapped |-> SortedList(codes_of(p))]]

\* the longest record list given to the detector
MaxLabelRecords == 3

\* records with known labels only
KnownLabelRecords ==
  {LabelRecord("Belchatow", "BEL 2-02"), LabelRecord("Opole", "OPL 1-01"),
   LabelRecord("Opole", None), LabelRecord(None, "BEL 2-02"),
   LabelRecord(None, None)}

LabelRecordSamples ==
  KnownLabelRecords \cup
  {LabelRecord("Nowa Elektrownia", "NEW 1-01"),
   LabelRecord("Nowa Elektrownia", "NEW 1-02"),
   LabelRecord("Nowa Elektrownia", "NEW 1-03"),
   LabelRecord("Nowa Elektrownia", "OPL 1-01"),
   LabelRecord("Opole", "OPL 9-99"),
   LabelRecord(None, "ORPHAN 1-01"),
   LabelRecord("Inna Elektrownia", None)}

LabelInputs ==
  UNION { [1..n -> LabelRecordSamples] : n \in 0..MaxLabelRecords }

(***************************************************************************)
(* main() of the front end (src/streamlit_app.py)                          *)
(***************************************************************************)
\* variant of DateRangeInvalid: the check is missing
DateRangeInvalid_Missing(sd, ed) == FALSE

\* line 253
DateRangeInvalid(sd, ed) == sd > ed

\* line 172
page_size == 100000

\* st.session_state.query_params before any query was stored (line 295)
NoQueryParams ==
  [set |-> FALSE, text |-> <<0, 0, 0, "", <<>>, <<>> >>]

\* lines 378-380: the string that identifies the query of the widgets; its
\* parts are kept apart (the selections are sorted before they are joined)
CurrentQuery(q) ==
  [set |-> TRUE,
   text |-> <<q.start_date, q.end_date, page_size, q.filter_type,
              SortedList({q.selected_resources[i] : i \in 1..Len(q.selected_resources)}),
              SortedList({q.selected_power_plants[i] : i \in 1..Len(q.selected_power_plants)})>>]

\* the widget values of a run: every pair of dates, no filter or one plant
SessionQueries ==
  [start_date : Dates, end_date : Dates, filter_type : {FILTER_TYPE_ALL},
   selected_power_plants : {<<>>}, selected_resources : {<<>>}]
  \cup
  [start_date : Dates, end_date : Dates,
   filter_type : {FILTER_TYPE_BY_POWER_PLANT},
   selected_power_plants : {<<"Opole">>}, selected_resources : {<<>>}]

\* what fetch_pse_data_with_auto_split may do at line 440: raise or return
\* records, after calls of update_progress (lines 424-427) or none
FetchOutcomes ==
  [raised : {FALSE},
   records : {<<>>, <<LabelRecord("Opole", "OPL 1-01")>>,
              <<LabelRecord("Nowa Elektrownia", "NEW 1-01")>>},
   progressed : BOOLEAN]
  \cup [raised : {TRUE}, records : {<<>>}, progressed : BOOLEAN]

\* what a run has displayed in the metrics row and the warning box (lines
\* 310-371), with the query of its widgets
NoShown ==
  [count |-> 0, warning |-> FALSE, periods |-> 0, query |-> NoQueryParams,
   data_query |-> NoQueryParams]

\* line 381
QueryChanged(stored, current) == stored /= current

\* lines 475-478: the fetched records have labels the registry lacks
NewLabelsFound(q, records) ==
  /\ q.filter_type = FILTER_TYPE_ALL
  /\ records /= <<>>
  /\ detect_new_labels(records).has_new_labels

(***************************************************************************)
(* State                                                                   *)
(***************************************************************************)
VARIABLES
  pc,              \* "idle", "awaiting" (a GET is in flight), "page_returned"
                   \* (fetch_pse_page has returned to the walker), "returned"
                   \* (fetch_all_pse_data has returned), "raised"
  caller,          \* who started the walk: "api" (a direct call) or "ui"
  start_date,      \* arguments and locals of fetch_all_pse_data
  end_date,
  has_callback,    \* progress_callback is not None
  params,
  all_records,
  current_url,
  use_params,
  page_count,
  data,            \* the tuple fetch_pse_page returned (line 210)
  next_link,
  error_occurred,
  retry_count,     \* argument of the running fetch_pse_page call
  request,         \* the GET in flight
  sleeps,          \* the delays slept by the running fetch_pse_page call
  attempts,        \* GETs issued by the running fetch_pse_page call
  total_attempts,  \* GETs issued by the running fetch_all_pse_data call
  served,          \* record lists of the pages the server delivered
  last_body,       \* the last body the server delivered
  callbacks,       \* the calls of progress_callback, in order
  stop_wanted,     \* the caller, asked after the last page, wants to stop
  prev,            \* what the caller observed of the previous walk
  ui_error,        \* main() showed the date-range error and returned
  exp_args,        \* arguments of calculate_expected_intervals
  exp_applied,
  exp_result,
  cov_data,        \* arguments of calculate_time_coverage
  cov_start,
  cov_end,
  cov_applied,
  cov_result,      \* its result for cov_data
  cov_prev,        \* its result for cov_data without the last record
  split_args,      \* arguments of fetch_pse_data_with_auto_split
  split_applied,
  sub_ranges,      \* the sub-ranges of the request, in processing order
  sub_idx,         \* the sub-range being walked
  accumulated,     \* the records the dispatcher has collected
  failed_subs,     \* the sub-ranges whose walk failed
  session_all_data,\* st.session_state.all_data
  fetch_error,     \* main() showed the fetch error (lines 508-514)
  lab_data,        \* argument of detect_new_labels
  lab_applied,
  lab_result,
  query_params,    \* st.session_state.query_params
  new_labels_warning, \* st.session_state.new_labels_warning is set
  total_periods,   \* st.session_state.total_periods
  data_query,      \* the query of the last fetch that stored all_data
  shown,           \* what the last run displayed before line 381
  run_kind,        \* how the last run of main() ended
  data_before      \* all_data when the last run reached the fetch button

walk_vars ==
  <<caller, start_date, end_date, has_callback, params, all_records,
    current_url, use_params, page_count, data, next_link, error_occurred,
    retry_count, request, sleeps, attempts, total_attempts, served,
    last_body, callbacks, stop_wanted>>

exp_vars == <<exp_args, exp_applied, exp_result>>

cov_vars == <<cov_data, cov_start, cov_end, cov_applied, cov_result, cov_prev>>

\* the state of the functions that are applied on their own
split_vars == <<split_args, split_applied, sub_ranges>>

disp_vars == <<sub_idx, accumulated, failed_subs, session_all_data, fetch_error>>

lab_vars == <<lab_data, lab_applied, lab_result>>

ses_vars ==
  <<query_params, new_labels_warning, total_periods, data_query, shown,
    run_kind, data_before>>

rest_vars == <<lab_vars, ses_vars>>

other_vars == <<exp_vars, cov_vars, split_vars, disp_vars, rest_vars>>

vars == <<pc, walk_vars, prev, ui_error, other_vars>>

CovIdle ==
  /\ cov_data = <<>>
  /\ cov_start = NoDt
  /\ cov_end = NoDt
  /\ cov_applied = FALSE
  /\ cov_result = NoCoverage
  /\ cov_prev = NoCoverage

SplitIdle ==
  /\ split_args = NoArgs
  /\ split_applied = FALSE
  /\ sub_ranges = NoSubRanges

DispIdle ==
  /\ sub_idx = 0
  /\ accumulated = <<>>
  /\ failed_subs = {}
  /\ session_all_data = <<>>
  /\ fetch_error = FALSE

LabIdle ==
  /\ lab_data = <<>>
  /\ lab_applied = FALSE
  /\ lab_result = NoLabels

\* lines 285-304: the defaults of the session state
SesIdle ==
  /\ query_params = NoQueryParams
  /\ new_labels_warning = FALSE
  /\ total_periods = 0
  /\ data_query = NoQueryParams
  /\ shown = NoShown
  /\ run_kind = "none"
  /\ data_before = <<>>

RestIdle == LabIdle /\ SesIdle

NoPrev == [kind |-> "none", raised |-> FALSE, result |-> <<>>]

WalkIdle ==
  /\ caller = "none"
  /\ start_date = 0
  /\ end_date = 0
  /\ has_callback = FALSE
  /\ params = NoParams
  /\ all_records = <<>>
  /\ current_url = None
  /\ use_params = FALSE
  /\ page_count = 0
  /\ data = NoData
  /\ next_link = None
  /\ error_occurred = FALSE
  /\ retry_count = 0
  /\ request = NoRequest
  /\ sleeps = <<>>
  /\ attempts = 0
  /\ total_attempts = 0
  /\ served = <<>>
  /\ last_body = NoData
  /\ callbacks = <<>>
  /\ stop_wanted = FALSE

Init ==
  /\ pc = "idle"
  /\ WalkIdle
  /\ prev = NoPrev
  /\ ui_error = FALSE
  /\ exp_args = NoArgs
  /\ exp_applied = FALSE
  /\ exp_result = 0
  /\ CovIdle
  /\ SplitIdle
  /\ DispIdle
  /\ RestIdle

(***************************************************************************)
(* The pagination walker and the page fetcher                              *)
(***************************************************************************)
\* variant of InitialRetryCount: the retries spent on the previous page are
\* carried over
InitialRetryCount_CarriedOver(spent) == spent

\* lines 210-214 and 101: the walker passes no retry_count, so every page
\* starts with the default 0, whatever the previous page spent
InitialRetryCount(spent) == 0

\* lines 185-214: entry of fetch_all_pse_data up to the first GET
StartWalk(sd, ed, cb, who) ==
  /\ caller' = who
  /\ start_date' = sd
  /\ end_date' = ed
  /\ has_callback' = cb
  /\ params' = InitialParams(sd, ed, DEFAULT_PAGE_SIZE)
  /\ all_records' = <<>>
  /\ current_url' = PSE_API_BASE_URL
  /\ use_params' = TRUE
  /\ page_count' = 1
  /\ data' = NoData
  /\ next_link' = None
  /\ error_occurred' = FALSE
  /\ retry_count' = InitialRetryCount(0)
  /\ request' = FetchArgs(PSE_API_BASE_URL, TRUE,
                          InitialParams(sd, ed, DEFAULT_PAGE_SIZE))
  /\ sleeps' = <<>>
  /\ attempts' = 1
  /\ total_attempts' = 1
  /\ served' = <<>>
  /\ last_body' = NoData
  /\ callbacks' = <<>>
  /\ stop_wanted' = FALSE
  /\ pc' = "awaiting"

\* a direct call of fetch_all_pse_data
fetch_all_pse_data(sd, ed, cb) ==
  /\ pc = "idle"
  /\ StartWalk(sd, ed, cb, "api")
  /\ ui_error' = FALSE
  /\ UNCHANGED <<prev, other_vars>>

\* lines 146-157: the GET in flight fails with a caught exception
HttpFailure(kind) ==
  /\ pc = "awaiting"
  /\ kind \in CaughtKinds
  /\ IF CanRetry(retry_count)
       THEN /\ sleeps' = Append(sleeps, RetryDelay(retry_count))
            /\ retry_count' = retry_count + 1
            /\ request' = FetchArgs(current_url, use_params, params)
            /\ attempts' = attempts + 1
            /\ total_attempts' = total_attempts + 1
            /\ UNCHANGED <<pc, data, next_link, error_occurred>>
       ELSE /\ data' = ErrorResult.data
            /\ next_link' = ErrorResult.next_link
            /\ error_occurred' = ErrorResult.error_occurred
            /\ request' = NoRequest
            /\ pc' = "page_returned"
            /\ UNCHANGED <<sleeps, retry_count, attempts,
                           total_attempts>>
  /\ UNCHANGED <<caller, start_date, end_date, has_callback, params,
                 all_records, current_url, use_params, page_count, served,
                 last_body, callbacks, stop_wanted, prev, ui_error, other_vars>>

\* lines 137-142: the body is JSON but data.get or len(records) raises an
\* exception that line 146 does not catch; it leaves fetch_pse_page and
\* fetch_all_pse_data
HttpUnexpectedJson(resp) ==
  /\ pc = "awaiting"
  /\ \/ resp.kind = "json_array"
     \/ resp.kind = "object" /\ GetValue(resp.body).t = "null"
  /\ request' = NoRequest
  /\ pc' = "raised"
  /\ UNCHANGED <<caller, start_date, end_date, has_callback, params,
                 all_records, current_url, use_params, page_count, data,
                 next_link, error_occurred, retry_count, sleeps, attempts, total_attempts, served, last_body, callbacks, stop_wanted,
                 prev, ui_error, other_vars>>

\* lines 136-144: the GET in flight is answered with a page
HttpSuccess(body) ==
  /\ pc = "awaiting"
  /\ body \in GoodBodies(page_count)
  /\ data' = PageResult(body, retry_count).data
  /\ next_link' = PageResult(body, retry_count).next_link
  /\ error_occurred' = PageResult(body, retry_count).error_occurred
  /\ request' = NoRequest
  /\ served' = Append(served, GetValue(body).v)
  /\ last_body' = body
  /\ pc' = "page_returned"
  /\ UNCHANGED <<caller, start_date, end_date, has_callback, params,
                 all_records, current_url, use_params, page_count,
                 retry_count, sleeps, attempts, total_attempts, callbacks,
                 stop_wanted, prev, ui_error, other_vars>>

\* variant of ProgressCall: the callback is given the size of the page
ProgressCall_PageSize(page, all, records) == <<page, Len(records)>>

\* line 226: the arguments of progress_callback
ProgressCall(page, all, records) == <<page, Len(all)>>

\* lines 216-238 and 205-214: the walker takes the tuple of fetch_pse_page,
\* and either returns or asks for the next page
WalkerStep(stop) ==
  /\ pc = "page_returned"
  /\ IF error_occurred
       THEN /\ pc' = "returned"
            /\ UNCHANGED <<all_records, callbacks, stop_wanted, current_url,
                           use_params, page_count, retry_count, request,
                           sleeps, attempts, total_attempts>>
       ELSE LET records == GetValue(data).v
                all == Extend(all_records, records)
            IN  /\ all_records' = all
                /\ callbacks' = IF has_callback
                                  THEN Append(callbacks,
                                              ProgressCall(page_count, all, records))
                                  ELSE callbacks
                /\ stop_wanted' = (has_callback /\ stop)
                /\ IF HasNextPage(next_link)
                     THEN /\ current_url' = next_link
                          /\ use_params' = FALSE
                          /\ page_count' = page_count + 1
                          /\ retry_count' = InitialRetryCount(retry_count)
                          /\ request' = FetchArgs(next_link, FALSE, params)
                          /\ sleeps' = <<>>
                          /\ attempts' = 1
                          /\ total_attempts' = total_attempts + 1
                          /\ pc' = "awaiting"
                     ELSE /\ current_url' = None
                          /\ pc' = "returned"
                          /\ UNCHANGED <<use_params, page_count, retry_count,
                                         request, sleeps, attempts,
                                         total_attempts>>
  /\ UNCHANGED <<caller, start_date, end_date, has_callback, params, data,
                 next_link, error_occurred, served, last_body, prev,
                 ui_error, other_vars>>

(***************************************************************************)
(* The callers                                                             *)
(***************************************************************************)
\* how a finished walk ended, as the environment knows it
WalkKind ==
  IF pc = "raised" THEN "raised"
  ELSE IF error_occurred /\ page_count = 1 THEN "first_page_failed"
  ELSE IF ~error_occurred /\ served = << <<>> >> THEN "empty_success"
  ELSE "other"

\* what a caller of fetch_all_pse_data gets to see: the returned list, or
\* the exception
Observation ==
  [kind |-> WalkKind,
   raised |-> (pc = "raised"),
   result |-> IF pc = "returned" THEN all_records ELSE <<>>]

\* the locals of a finished walk are gone
ResetWalk ==
  /\ caller' = "none"
  /\ start_date' = 0
  /\ end_date' = 0
  /\ has_callback' = FALSE
  /\ params' = NoParams
  /\ all_records' = <<>>
  /\ current_url' = None
  /\ use_params' = FALSE
  /\ page_count' = 0
  /\ data' = NoData
  /\ next_link' = None
  /\ error_occurred' = FALSE
  /\ retry_count' = 0
  /\ request' = NoRequest
  /\ sleeps' = <<>>
  /\ attempts' = 0
  /\ total_attempts' = 0
  /\ served' = <<>>
  /\ last_body' = NoData
  /\ callbacks' = <<>>
  /\ stop_wanted' = FALSE

\* the caller takes the result of the walk (line 238) and keeps it
CallerTakesResult ==
  /\ pc \in {"returned", "raised"}
  /\ prev' = Observation
  /\ pc' = "idle"
  /\ ResetWalk
  /\ UNCHANGED <<ui_error, other_vars>>

\* the dispatcher called at streamlit_app.py line 440 hands the range to the
\* walker, with a progress callback
fetch_pse_data_with_auto_split(sd, ed) == StartWalk(sd, ed, TRUE, "ui")

\* one run of main(): lines 198-208 read the dates, lines 253-255 validate
\* them, lines 400-448 start the fetch when the button was pressed
main(sd, ed, pressed) ==
  /\ pc = "idle"
  /\ IF DateRangeInvalid(sd, ed) \/ ~pressed
       THEN /\ ui_error' = DateRangeInvalid(sd, ed)
            /\ caller' = "ui"
            /\ start_date' = sd
            /\ end_date' = ed
            /\ UNCHANGED <<pc, has_callback, params, all_records,
                           current_url, use_params, page_count, data,
                           next_link, error_occurred, retry_count, request,
                           sleeps, attempts, total_attempts, served,
                           last_body, callbacks, stop_wanted>>
       ELSE /\ ui_error' = FALSE
            /\ fetch_pse_data_with_auto_split(sd, ed)
  /\ UNCHANGED <<prev, other_vars>>

\* responses that are JSON but not a page
UnexpectedJson(n) ==
  {[kind |-> "json_array", body |-> NoData]}
    \cup [kind : {"object"}, body : NullValueBodies(n)]

Next ==
  \/ \E sd \in Dates, ed \in Dates, cb \in BOOLEAN :
       fetch_all_pse_data(sd, ed, cb)
  \/ \E sd \in Dates, ed \in Dates, pressed \in BOOLEAN :
       main(sd, ed, pressed)
  \/ \E kind \in CaughtKinds : HttpFailure(kind)
  \/ \E resp \in UnexpectedJson(page_count) : HttpUnexpectedJson(resp)
  \/ \E body \in GoodBodies(page_count) : HttpSuccess(body)
  \/ \E stop \in BOOLEAN : WalkerStep(stop)

Spec == Init /\ [][Next]_vars

(***************************************************************************)
(* A caller that walks the same range again and again and keeps what the   *)
(* previous walk gave it                                                   *)
(***************************************************************************)
NextCalls ==
  \/ \E d \in Dates, cb \in BOOLEAN : fetch_all_pse_data(d, d, cb)
  \/ \E kind \in CaughtKinds : HttpFailure(kind)
  \/ \E resp \in UnexpectedJson(page_count) : HttpUnexpectedJson(resp)
  \/ \E body \in GoodBodies(page_count) : HttpSuccess(body)
  \/ \E stop \in BOOLEAN : WalkerStep(stop)
  \/ CallerTakesResult

SpecCalls == Init /\ [][NextCalls]_vars

(***************************************************************************)
(* The expected-count estimator applied to every input                     *)
(***************************************************************************)
InitExpected ==
  /\ pc = "idle"
  /\ WalkIdle
  /\ prev = NoPrev
  /\ ui_error = FALSE
  /\ exp_args \in ExpectedArgs
  /\ exp_applied = FALSE
  /\ exp_result = 0
  /\ CovIdle
  /\ SplitIdle
  /\ DispIdle
  /\ RestIdle

ApplyExpected ==
  /\ ~exp_applied
  /\ exp_applied' = TRUE
  /\ exp_result' = calculate_expected_intervals(
                     exp_args.start_date, exp_args.end_date,
                     exp_args.filter_type, exp_args.selected_power_plants,
                     exp_args.selected_resources)
  /\ UNCHANGED <<rest_vars, pc, walk_vars, prev, ui_error, exp_args, cov_vars, split_vars,
                 disp_vars>>

NextExpected == ApplyExpected

SpecExpected == InitExpected /\ [][NextExpected]_vars

(***************************************************************************)
(* The coverage estimator applied to a record list that grows              *)
(***************************************************************************)
\* the longest record list
MaxRecords == 3

ExpIdle ==
  /\ exp_args = NoArgs
  /\ exp_applied = FALSE
  /\ exp_result = 0

InitCoverage ==
  /\ pc = "idle"
  /\ WalkIdle
  /\ prev = NoPrev
  /\ ui_error = FALSE
  /\ ExpIdle
  /\ cov_data = <<>>
  /\ cov_start \in RangeBounds
  /\ cov_end \in RangeBounds
  /\ cov_applied = FALSE
  /\ cov_result = NoCoverage
  /\ cov_prev = NoCoverage
  /\ SplitIdle
  /\ DispIdle
  /\ RestIdle

\* calculate_time_coverage is called with the records collected so far
ApplyCoverage ==
  /\ ~cov_applied
  /\ cov_applied' = TRUE
  /\ cov_result' = calculate_time_coverage(cov_data, cov_start, cov_end)
  /\ cov_prev' = cov_result
  /\ UNCHANGED <<rest_vars, split_vars, disp_vars, pc, walk_vars, prev, ui_error, exp_vars, cov_data,
                 cov_start, cov_end>>

\* a record is added and calculate_time_coverage is called again for the
\* same range
AppendAndApplyCoverage(item) ==
  /\ cov_applied
  /\ Len(cov_data) < MaxRecords
  /\ cov_data' = Append(cov_data, item)
  /\ cov_result' = calculate_time_coverage(Append(cov_data, item),
                                           cov_start, cov_end)
  /\ cov_prev' = cov_result
  /\ UNCHANGED <<rest_vars, split_vars, disp_vars, pc, walk_vars, prev, ui_error, exp_vars, cov_start, cov_end,
                 cov_applied>>

NextCoverage ==
  \/ ApplyCoverage
  \/ \E item \in RecordSamples : AppendAndApplyCoverage(item)

SpecCoverage == InitCoverage /\ [][NextCoverage]_vars

(***************************************************************************)
(* The range splitter applied to every valid request                       *)
(***************************************************************************)
InitSplit ==
  /\ pc = "idle"
  /\ WalkIdle
  /\ prev = NoPrev
  /\ ui_error = FALSE
  /\ ExpIdle
  /\ CovIdle
  /\ split_args \in SplitArgs
  /\ split_applied = FALSE
  /\ sub_ranges = NoSubRanges
  /\ DispIdle
  /\ RestIdle

ApplySplit ==
  /\ ~split_applied
  /\ split_applied' = TRUE
  /\ sub_ranges' = SplitDateRange(split_args)
  /\ UNCHANGED <<rest_vars, pc, walk_vars, prev, ui_error, exp_vars, cov_vars, split_args,
                 disp_vars>>

NextSplit == ApplySplit

SpecSplit == InitSplit /\ [][NextSplit]_vars

(***************************************************************************)
(* The dispatcher: one walk per sub-range, in order (specification 4.3),   *)
(* called by main() at lines 438-448                                       *)
(***************************************************************************)
\* the requests that are dispatched: one, two and three sub-ranges
DispatchArgs ==
  { a \in SplitArgs :
      /\ a.filter_type = FILTER_TYPE_ALL
      /\ a.end_date - a.start_date \in {0, 10, 20} }

\* the pages the server sends during a dispatch
DispatchBodies(n) ==
  { b \in GoodBodies(n) :
      /\ b.value \in {JList(<<>>), JList(<<"r1">>)}
      /\ b.nextLink \in {Missing, "https://api.raporty.pse.pl/api/gen-jw?$after=A"} }

\* the walk of sub-range i
WalkSubRange(ranges, i) ==
  StartWalk(ranges[i].start, ranges[i].end, TRUE, "dispatcher")

\* main() line 440: the dispatcher splits the range and walks the first
\* sub-range
AutoSplitStart(a) ==
  /\ pc = "idle"
  /\ ~split_applied
  /\ split_args' = a
  /\ split_applied' = TRUE
  /\ sub_ranges' = SplitDateRange(a)
  /\ sub_idx' = 1
  /\ accumulated' = <<>>
  /\ failed_subs' = {}
  /\ WalkSubRange(SplitDateRange(a), 1)
  /\ UNCHANGED <<rest_vars, prev, ui_error, exp_vars, cov_vars, session_all_data,
                 fetch_error>>

\* the walk of a sub-range is over: the dispatcher sees what fetch_all_pse_data
\* gives its caller (the list of line 238, or an exception).  An exception
\* leaves the dispatcher and is caught by main() at lines 508-514; a list is
\* appended, and the next sub-range is walked or the result is stored by
\* main() at line 451
AutoSplitTakesWalk ==
  /\ pc \in {"returned", "raised"}
  /\ caller = "dispatcher"
  /\ failed_subs' = IF pc = "raised" \/ error_occurred
                      THEN failed_subs \cup {sub_idx}
                      ELSE failed_subs
  /\ IF Observation.raised
       THEN /\ pc' = "fetch_failed"
            /\ fetch_error' = TRUE
            /\ ResetWalk
            /\ UNCHANGED <<sub_idx, accumulated, session_all_data>>
       ELSE /\ accumulated' = accumulated \o Observation.result
            /\ IF sub_idx < Len(sub_ranges)
                 THEN /\ sub_idx' = sub_idx + 1
                      /\ WalkSubRange(sub_ranges, sub_idx + 1)
                      /\ UNCHANGED <<session_all_data, fetch_error>>
                 ELSE /\ pc' = "stored"
                      /\ session_all_data' = accumulated \o Observation.result
                      /\ ResetWalk
                      /\ UNCHANGED <<sub_idx, fetch_error>>
  /\ UNCHANGED <<rest_vars, prev, ui_error, exp_vars, cov_vars, split_vars>>

NextDispatch ==
  \/ \E a \in DispatchArgs : AutoSplitStart(a)
  \/ \E kind \in CaughtKinds : HttpFailure(kind)
  \/ \E resp \in UnexpectedJson(page_count) : HttpUnexpectedJson(resp)
  \/ \E body \in DispatchBodies(page_count) : HttpSuccess(body)
  \/ \E stop \in BOOLEAN : WalkerStep(stop)
  \/ AutoSplitTakesWalk

SpecDispatch == Init /\ [][NextDispatch]_vars

(***************************************************************************)
(* The label detector applied to every record list                         *)
(***************************************************************************)
InitLabels ==
  /\ pc = "idle"
  /\ WalkIdle
  /\ prev = NoPrev
  /\ ui_error = FALSE
  /\ ExpIdle
  /\ CovIdle
  /\ SplitIdle
  /\ DispIdle
  /\ lab_data \in LabelInputs
  /\ lab_applied = FALSE
  /\ lab_result = NoLabels
  /\ SesIdle

ApplyLabels ==
  /\ ~lab_applied
  /\ lab_applied' = TRUE
  /\ lab_result' = detect_new_labels(lab_data)
  /\ UNCHANGED <<pc, walk_vars, prev, ui_error, exp_vars, cov_vars, split_vars,
                 disp_vars, lab_data, ses_vars>>

NextLabels == ApplyLabels

SpecLabels == InitLabels /\ [][NextLabels]_vars

(***************************************************************************)
(* The session of the front end: runs of main() (src/streamlit_app.py,     *)
(* lines 174-516) over st.session_state                                    *)
(***************************************************************************)
\* lines 253-255: the date range is rejected and the run ends
RunRejected ==
  /\ ui_error' = TRUE
  /\ run_kind' = "rejected"
  /\ shown' = NoShown
  /\ UNCHANGED <<session_all_data, fetch_error, query_params,
                 new_labels_warning, total_periods, data_query, data_before>>

\* lines 274-279 and 285-304: the reset button deletes the keys of the
\* session state and the rerun sets their defaults
RunReset ==
  /\ ui_error' = FALSE
  /\ run_kind' = "reset"
  /\ shown' = NoShown
  /\ session_all_data' = <<>>
  /\ query_params' = NoQueryParams
  /\ new_labels_warning' = FALSE
  /\ total_periods' = 0
  /\ data_query' = NoQueryParams
  /\ UNCHANGED <<fetch_error, data_before>>

\* lines 306-516: the metrics row and the warning are displayed, a changed
\* query clears the session, and the fetch button fetches
RunShown(q, fetch_pressed, outcome) ==
  LET changed == QueryChanged(query_params, CurrentQuery(q))
      kept_data == IF changed THEN <<>> ELSE session_all_data
      kept_warning == IF changed THEN FALSE ELSE new_labels_warning
      kept_periods == IF changed THEN 0 ELSE total_periods
      kept_query == IF changed THEN NoQueryParams ELSE data_query
  IN  /\ ui_error' = FALSE
      /\ shown' = [count |-> Len(session_all_data),
                   warning |-> new_labels_warning,
                   periods |-> total_periods,
                   query |-> CurrentQuery(q),
                   data_query |-> data_query]
      /\ query_params' = CurrentQuery(q)
      /\ data_before' = kept_data
      /\ IF ~fetch_pressed
           THEN /\ run_kind' = "shown"
                /\ session_all_data' = kept_data
                /\ new_labels_warning' = kept_warning
                /\ total_periods' = kept_periods
                /\ data_query' = kept_query
                /\ UNCHANGED fetch_error
           ELSE /\ total_periods' = IF outcome.progressed THEN 1 ELSE kept_periods
                /\ IF outcome.raised
                     THEN /\ run_kind' = "fetch_failed"
                          /\ fetch_error' = TRUE
                          /\ session_all_data' = kept_data
                          /\ new_labels_warning' = kept_warning
                          /\ data_query' = kept_query
                     ELSE /\ run_kind' = "fetched"
                          /\ fetch_error' = FALSE
                          /\ session_all_data' = outcome.records
                          /\ new_labels_warning' =
                               (NewLabelsFound(q, outcome.records) \/ kept_warning)
                          /\ data_query' = CurrentQuery(q)

\* one run of main() in a session
SessionRun(q, reset_pressed, fetch_pressed, outcome) ==
  /\ pc = "idle"
  /\ IF DateRangeInvalid(q.start_date, q.end_date) THEN RunRejected
     ELSE IF reset_pressed THEN RunReset
     ELSE RunShown(q, fetch_pressed, outcome)
  /\ UNCHANGED <<pc, walk_vars, prev, exp_vars, cov_vars, split_vars, sub_idx,
                 accumulated, failed_subs, lab_vars>>

NextSession ==
  \E q \in SessionQueries, reset_pressed \in BOOLEAN, fetch_pressed \in BOOLEAN,
     outcome \in FetchOutcomes :
    SessionRun(q, reset_pressed, fetch_pressed, outcome)

SpecSession == Init /\ [][NextSession]_vars

(***************************************************************************)
(* Properties                                                              *)
(***************************************************************************)
\* the walker has taken the last page the server delivered
PageTaken ==
  /\ pc \in {"awaiting", "returned"}
  /\ ~error_occurred
  /\ Len(served) >= 1

\* what the caller can tell apart: the returned list, or the exception
Visible(o) == [raised |-> o.raised, result |-> o.result]

\* C1: a walk whose first page failed after the retries were exhausted and
\* a walk whose first page succeeded with no records and no nextLink give
\* the caller different things (a different return value or a failure
\* indicator).
C1_FailureDistinguishable ==
  (pc = "returned" /\ prev.kind /= "none") =>
    (({WalkKind, prev.kind} = {"first_page_failed", "empty_success"})
       => Visible(Observation) /= Visible(prev))

\* C2: a fetch_pse_page call never issues more than MAX_RETRIES + 1 = 4
\* GETs, the k-th retry is preceded by a sleep of MIN_RETRY_DELAY * 2^(k-1),
\* and when every attempt fails with a caught error the call returns
\* error_occurred = True after exactly 4 GETs and sleeps 1, 2, 4 (7 in all).
C2_RetryExhaustion ==
  /\ attempts <= MAX_RETRIES + 1
  /\ attempts <= 4
  /\ pc = "awaiting" => Len(sleeps) = attempts - 1
  /\ \A k \in 1..Len(sleeps) : sleeps[k] = MIN_RETRY_DELAY * Pow(2, k - 1)
  /\ (pc \in {"page_returned", "returned"} /\ error_occurred) =>
       /\ attempts = MAX_RETRIES + 1
       /\ attempts = 4
       /\ sleeps = <<1, 2, 4>>
       /\ SumSeq(sleeps) = 7
       /\ request = NoRequest

C2_Witness ==
  /\ pc = "page_returned"
  /\ error_occurred
  /\ attempts = 4
  /\ sleeps = <<1, 2, 4>>

\* C3: fetch_pse_page never raises: whatever the outcome of the GET, the
\* call returns a tuple.
C3_NeverRaises == pc /= "raised"

\* C4: when fetch_pse_page reports an error on page k, the walk returns
\* without a further request, and it returns the records of pages 1..k-1 in
\* order.
C4_PartialResultsKept ==
  (pc = "returned" /\ error_occurred) =>
    /\ request = NoRequest
    /\ Len(served) = page_count - 1
    /\ all_records = Flatten(served)

C4_Witness ==
  /\ pc = "returned"
  /\ error_occurred
  /\ page_count = 3
  /\ all_records = <<"r1", "r2", "r1">>

\* C5: a walk of N pages that all succeed, the last one without a nextLink,
\* returns the concatenation of the N pages' records in page order and
\* calls the progress callback exactly N times.
C5_AllPagesConcatenated ==
  (pc = "returned" /\ ~error_occurred) =>
    /\ Len(served) = page_count
    /\ all_records = Flatten(served)
    /\ has_callback => Len(callbacks) = Len(served)
    /\ ~has_callback => callbacks = <<>>

C5_Witness ==
  /\ pc = "returned"
  /\ ~error_occurred
  /\ has_callback
  /\ Len(served) = 3
  /\ Len(callbacks) = 3
  /\ all_records = <<"r2", "r1", "r1">>

\* C6: every GET for page 1 goes to the base URL with the parameters
\* $filter, $orderby and $first; every GET for a later page goes to exactly
\* the nextLink of the page before it, without parameters.
C6_OnlyFirstRequestHasParams ==
  pc = "awaiting" =>
    IF page_count = 1
      THEN request = [url |-> PSE_API_BASE_URL,
                      params |-> InitialParams(start_date, end_date,
                                               DEFAULT_PAGE_SIZE)]
      ELSE request = [url |-> last_body.nextLink, params |-> NoParams]

C6_Witness ==
  /\ pc = "awaiting"
  /\ page_count = 2
  /\ retry_count = 1
  /\ request.url \in NextLinks

C8_TransientFailuresHidden ==
  (pc = "page_returned" /\ Len(served) = page_count) =>
    /\ ~error_occurred
    /\ data = last_body
    /\ next_link = GetNextLink(last_body)

C8_Witness ==
  /\ pc = "page_returned"
  /\ Len(served) = page_count
  /\ retry_count = MAX_RETRIES
  /\ data.value = JList(<<"r2", "r1">>)

\* C9 (as stated): for a range with start_date > end_date no HTTP request
\* is issued.
C9_InvalidRangeNoRequest ==
  start_date > end_date => (pc = "idle" /\ request = NoRequest)

\* C9 (amended): a range with start_date > end_date entered in the front
\* end is rejected by main() before any fetch is started.
C9_MainRejectsInvalidRange ==
  (caller = "ui" /\ start_date > end_date) =>
    /\ ui_error
    /\ pc = "idle"
    /\ request = NoRequest
    /\ attempts = 0

C9_Witness ==
  /\ caller = "ui"
  /\ start_date > end_date
  /\ ui_error

\* C10: for start_date = end_date = 2024-01-01 and filter ALL the expected
\* count is (24*4)+1 = 97 intervals times the number of known resources.
C10_SingleDayExpectedCount ==
  (/\ exp_applied
   /\ exp_args.start_date = toordinal(2024, 1, 1)
   /\ exp_args.end_date = toordinal(2024, 1, 1)
   /\ exp_args.filter_type = FILTER_TYPE_ALL)
    => exp_result = ((24 * 4) + 1) * Len(ALL_RESOURCE_CODES)

\* the three filter types the estimator knows
KnownFilterTypes ==
  {FILTER_TYPE_ALL, FILTER_TYPE_BY_POWER_PLANT, FILTER_TYPE_BY_RESOURCE_CODE}

\* C11: for start_date <= end_date and filter ALL the estimator returns
\* (floor(minutes from start_date to end_date / 15) + 1) times the number of
\* entries of ALL_RESOURCE_CODES.
C11_AllFilterCount ==
  (/\ exp_applied
   /\ exp_args.start_date <= exp_args.end_date
   /\ exp_args.filter_type = FILTER_TYPE_ALL)
    => exp_result =
         ((((exp_args.end_date - exp_args.start_date) * 24 * 60) \div 15) + 1)
           * Len(ALL_RESOURCE_CODES)

C11_Witness ==
  /\ exp_applied
  /\ exp_args.start_date < exp_args.end_date
  /\ exp_args.filter_type = FILTER_TYPE_ALL
  /\ exp_result = 97 * Len(ALL_RESOURCE_CODES)

\* the selection that belongs to the filter type is empty or None, or the
\* filter type is not one of the three known ones
IncompleteFilter(a) ==
  \/ a.filter_type = FILTER_TYPE_BY_POWER_PLANT
       /\ ~NonEmptyList(a.selected_power_plants)
  \/ a.filter_type = FILTER_TYPE_BY_RESOURCE_CODE
       /\ ~NonEmptyList(a.selected_resources)
  \/ a.filter_type \notin KnownFilterTypes

\* C12: with an empty or missing selection for a non-ALL filter, and with
\* an unknown filter type, the estimator returns what filter ALL returns for
\* the same dates, not zero.
C12_FallbackToAll ==
  (exp_applied /\ IncompleteFilter(exp_args)) =>
    /\ exp_result = calculate_expected_intervals(
                      exp_args.start_date, exp_args.end_date,
                      FILTER_TYPE_ALL, PyNone, PyNone)
    /\ exp_result /= 0

C12_Witness ==
  /\ exp_applied
  /\ exp_args.filter_type = FILTER_TYPE_BY_POWER_PLANT
  /\ exp_args.selected_power_plants = JList(<<>>)
  /\ exp_args.selected_resources = JList(<<"OPL 1-01">>)
  /\ exp_result = Len(ALL_RESOURCE_CODES)

\* the codes the registry lists for a plant
PlantCodes(plant) ==
  { POWER_PLANT_TO_RESOURCES[plant][i] :
      i \in 1..Len(POWER_PLANT_TO_RESOURCES[plant]) }

\* the union of the registry's codes over the selected plants it knows
SelectedPlantCodes(selection) ==
  UNION { PlantCodes(plant) :
            plant \in { selection[i] : i \in 1..Len(selection) }
                        \cap DOMAIN POWER_PLANT_TO_RESOURCES }

\* C13: with filter BY_POWER_PLANT and a non-empty selection the multiplier
\* is the size of the union of the registry's codes over the selected
\* plants that are in the registry: an unknown plant adds nothing, a plant
\* listed twice counts once.
C13_PlantUnionCount ==
  (/\ exp_applied
   /\ exp_args.filter_type = FILTER_TYPE_BY_POWER_PLANT
   /\ NonEmptyList(exp_args.selected_power_plants))
    => exp_result =
         TimeIntervals(exp_args.start_date, exp_args.end_date)
           * Cardinality(SelectedPlantCodes(exp_args.selected_power_plants.v))

C13_Witness ==
  /\ exp_applied
  /\ exp_args.filter_type = FILTER_TYPE_BY_POWER_PLANT
  /\ exp_args.selected_power_plants
       = JList(<<"Opole", "Nowa Elektrownia", "Opole">>)
  /\ exp_args.start_date = exp_args.end_date
  /\ exp_result = 6

\* C14: whatever the records and the range (also with range_end before
\* range_start, and with the latest timestamp before range_start or after
\* range_end), the fraction is within [0.0, 1.0].
C14_FractionInUnitInterval ==
  cov_applied =>
    /\ cov_result.fraction.den > 0
    /\ 0 <= cov_result.fraction.num
    /\ cov_result.fraction.num <= cov_result.fraction.den

C14_Witness ==
  /\ cov_applied
  /\ DtLess(cov_start, cov_end)
  /\ cov_result.latest /= NoDt
  /\ DtLess(cov_result.latest, cov_start)
  /\ FracIsZero(cov_result.fraction)

\* C15: for a fixed range the fraction does not decrease when records are
\* appended.
C15_FractionMonotone ==
  cov_applied => FracLeq(cov_prev.fraction, cov_result.fraction)

C15_Witness ==
  /\ cov_applied
  /\ Len(cov_data) >= 2
  /\ cov_prev.latest /= NoDt
  /\ DtLess(cov_prev.latest, cov_result.latest)
  /\ ~FracLeq(cov_result.fraction, cov_prev.fraction)

\* C16: for range_end = range_start the fraction is 0.0 for every record
\* list.
C16_ZeroWidthRange ==
  (cov_applied /\ cov_start = cov_end) => cov_result.fraction = ZeroFrac

C16_Witness ==
  /\ cov_applied
  /\ cov_start = cov_end
  /\ cov_result.latest /= NoDt
  /\ DtLess(cov_start, cov_result.latest)
  /\ cov_result.fraction = ZeroFrac

\* records that carry no timestamp, or only values that do not parse
NoTimestampRecords ==
  {Record(FStr(2024, 2, 30, 0, 0, 0), FOther("absent")),
   Record(FOther("text"), FOther("absent")),
   Record(FOther("number"), FOther("empty")),
   Record(FOther("absent"), FOther("absent"))}

\* C17: when no record yields a valid timestamp (empty list, records
\* without dtime and dtime_utc, only malformed values) the result is
\* exactly (0.0, None, None).
C17_NoTimestampNoCoverage ==
  (cov_applied /\ \A i \in 1..Len(cov_data) : cov_data[i] \in NoTimestampRecords)
    => cov_result = [fraction |-> ZeroFrac, earliest |-> NoDt, latest |-> NoDt]

C17_Witness ==
  /\ cov_applied
  /\ Len(cov_data) = 3
  /\ cov_data[1] = Record(FOther("absent"), FOther("absent"))
  /\ cov_data[2] = Record(FStr(2024, 2, 30, 0, 0, 0), FOther("absent"))
  /\ cov_data[3] = Record(FOther("text"), FOther("absent"))
  /\ cov_result = [fraction |-> ZeroFrac, earliest |-> NoDt, latest |-> NoDt]

C19_SubRangesUnderCeiling ==
  split_applied =>
    \A i \in 1..Len(sub_ranges) :
      SubRangeExpected(split_args, sub_ranges[i]) <= MAX_EXPECTED_ENTRIES

UnknownPlant == "Nowa Elektrownia"

UnknownCodes == {"NEW 1-01", "NEW 1-02", "NEW 1-03"}

\* the codes attached to the unknown plant
AttachedCodes ==
  {lab_data[i].resource_code :
     i \in {j \in 1..Len(lab_data) : lab_data[j].power_plant = UnknownPlant}}

\* every member of S once, in lexicographic order
IsSortedListOf(seq, S) ==
  /\ {seq[i] : i \in 1..Len(seq)} = S
  /\ \A i \in 1..Len(seq) : \A j \in 1..Len(seq) :
       i < j => LexRank(seq[i]) < LexRank(seq[j])

\* what C22 says of the result
OneNewPlantReported ==
  /\ lab_result.new_power_plants = <<UnknownPlant>>
  /\ Len(lab_result.new_resource_codes) = Cardinality(AttachedCodes)
  /\ DOMAIN lab_result.new_mapping = {UnknownPlant}
  /\ IsSortedListOf(lab_result.new_mapping[UnknownPlant], AttachedCodes)

\* C22 as stated: a record list with exactly one unknown plant, with N
\* distinct codes attached (whatever the codes), gives one new plant, N new
\* codes and the plant mapped to the N codes in lexicographic order.
C22_OneUnknownPlant ==
  (/\ lab_applied
   /\ AttachedCodes /= {}
   /\ \A i \in 1..Len(lab_data) :
        \/ lab_data[i] \in KnownLabelRecords
        \/ /\ lab_data[i].power_plant = UnknownPlant
           /\ lab_data[i].resource_code /= None)
    => OneNewPlantReported

\* C22 amended: the same, when the N codes attached to the unknown plant
\* are themselves absent from the registry.
C22_OneUnknownPlantNewCodes ==
  (/\ lab_applied
   /\ AttachedCodes /= {}
   /\ \A i \in 1..Len(lab_data) :
        \/ lab_data[i] \in KnownLabelRecords
        \/ /\ lab_data[i].power_plant = UnknownPlant
           /\ lab_data[i].resource_code \in UnknownCodes)
    => /\ OneNewPlantReported
       /\ IsSortedListOf(lab_result.new_resource_codes, AttachedCodes)

C22_Witness ==
  /\ lab_applied
  /\ lab_data = <<LabelRecord(UnknownPlant, "NEW 1-02"),
                  LabelRecord(UnknownPlant, "NEW 1-01"),
                  LabelRecord(UnknownPlant, "NEW 1-02")>>
  /\ lab_result.new_mapping[UnknownPlant] = <<"NEW 1-01", "NEW 1-02">>
  /\ lab_result.new_resource_codes = <<"NEW 1-01", "NEW 1-02">>


\* the labels of the sample records, and those among them that the registry
\* does not hold
SamplePlants == {"Belchatow", "Opole", "Nowa Elektrownia", "Inna Elektrownia"}

SampleCodes ==
  {"BEL 2-02", "OPL 1-01", "OPL 9-99", "ORPHAN 1-01"} \cup UnknownCodes

PlantsOffRegistry == {"Nowa Elektrownia", "Inna Elektrownia"}

CodesOffRegistry == {"OPL 9-99", "ORPHAN 1-01"} \cup UnknownCodes

\* the pair (p, c) is in new_mapping
MappingHolds(p, c) ==
  /\ p \in DOMAIN lab_result.new_mapping
  /\ \E k \in 1..Len(lab_result.new_mapping[p]) : lab_result.new_mapping[p][k] = c

RECURSIVE RecordsThrough(_)
RecordsThrough(i) == IF i = 0 THEN 0 ELSE RecordsThrough(i - 1) + Len(served[i])

\* C24: the i-th call of the progress callback is given (i, number of
\* records in pages 1..i); it is made after the records of page i were
\* appended and before page i+1 is requested, and none is made for a page
\* whose fetch failed.
C24_CallbackPerPage ==
  /\ ~has_callback => callbacks = <<>>
  /\ has_callback =>
       /\ \A i \in 1..Len(callbacks) :
            /\ i <= Len(served)
            /\ callbacks[i] = <<i, RecordsThrough(i)>>
       /\ Len(callbacks) >= 1 =>
            callbacks[Len(callbacks)][2] = Len(all_records)
       /\ pc = "awaiting" => Len(callbacks) = page_count - 1
       /\ (pc = "returned" /\ error_occurred) => Len(callbacks) = page_count - 1
       /\ (pc = "returned" /\ ~error_occurred) => Len(callbacks) = page_count

C24_Witness ==
  /\ has_callback
  /\ pc = "returned"
  /\ error_occurred
  /\ page_count = 3
  /\ callbacks = << <<1, 2>>, <<2, 3>> >>


\* record i of cov_data carries a timestamp that parses
ValidAt(i) == HasDtime(cov_data[i]) /\ StrptimeOk(DtimeOf(cov_data[i]))

\* the timestamp of record i
TimestampAt(i) == Strptime(DtimeOf(cov_data[i]))

\* C25: for range_end > range_start and at least one valid timestamp, the
\* fraction depends on the latest valid timestamp only: 0.0 exactly when
\* latest <= range_start, 1.0 exactly when latest >= range_end, and
\* (latest - range_start) / (range_end - range_start) in between.
C25_FractionFromLatest ==
  (/\ cov_applied
   /\ DtLess(cov_start, cov_end)
   /\ \E i \in 1..Len(cov_data) : ValidAt(i))
    => LET latest == cov_result.latest
           f == cov_result.fraction
       IN  /\ \E i \in 1..Len(cov_data) : ValidAt(i) /\ TimestampAt(i) = latest
           /\ \A i \in 1..Len(cov_data) :
                ValidAt(i) => ~DtLess(latest, TimestampAt(i))
           /\ (f.num = 0) <=> ~DtLess(cov_start, latest)
           /\ (f.num = f.den) <=> ~DtLess(latest, cov_end)
           /\ (DtLess(cov_start, latest) /\ DtLess(latest, cov_end)) =>
                f = Frac(TotalSeconds(latest, cov_start),
                         TotalSeconds(cov_end, cov_start))

C25_Witness ==
  /\ cov_applied
  /\ cov_start = Dt(toordinal(2024, 1, 1), 0)
  /\ cov_end = Dt(toordinal(2024, 1, 2), 0)
  /\ Len(cov_data) = 3
  /\ cov_result.earliest = Dt(toordinal(2023, 12, 31), 43200)
  /\ cov_result.latest = Dt(toordinal(2024, 1, 1), 43200)
  /\ cov_result.fraction.num * 2 = cov_result.fraction.den


\* C26: every page request of a walk starts with retry count 0, a page
\* fails only after MAX_RETRIES retries of its own, and a walk that has
\* requested P pages has issued at most P * (MAX_RETRIES + 1) GETs.
C26_RetryBudgetPerPage ==
  /\ pc = "awaiting" => attempts = retry_count + 1
  /\ (pc = "awaiting" /\ attempts = 1) => (retry_count = 0 /\ sleeps = <<>>)
  /\ error_occurred =>
       (retry_count = MAX_RETRIES /\ attempts = MAX_RETRIES + 1)
  /\ total_attempts <= page_count * (MAX_RETRIES + 1)
  /\ total_attempts >= attempts

C26_Witness ==
  /\ pc = "returned"
  /\ error_occurred
  /\ page_count = 3
  /\ attempts = MAX_RETRIES + 1
  /\ total_attempts = 3 * (MAX_RETRIES + 1)


\* fetch_all_pse_data is over, by return or by exception
WalkOver == pc \in {"returned", "raised"}

\* C27: a walk is over only when the server has returned a page without a
\* (non-empty) nextLink or a page fetch has exhausted its retries.
C27_EndsOnlyOnLastPageOrExhaustion ==
  WalkOver =>
    \/ error_occurred
    \/ /\ Len(served) = page_count
       /\ ~HasNextPage(next_link)


\* a non-empty selection of plants none of which is in the registry
OnlyUnknownPlants(selection) ==
  /\ NonEmptyList(selection)
  /\ \A i \in 1..Len(selection.v) : selection.v[i] \notin {"Opole", "Rybnik"}

\* C28: for start_date <= end_date the expected count is 0 exactly when the
\* filter is BY_POWER_PLANT with a non-empty selection of unknown plants
\* only, and positive in every other case.
C28_ZeroOnlyForUnknownPlants ==
  (exp_applied /\ exp_args.start_date <= exp_args.end_date) =>
    /\ exp_result >= 0
    /\ (exp_result = 0) <=>
         /\ exp_args.filter_type = FILTER_TYPE_BY_POWER_PLANT
         /\ OnlyUnknownPlants(exp_args.selected_power_plants)

C28_Witness ==
  /\ exp_applied
  /\ exp_args.start_date < exp_args.end_date
  /\ exp_args.filter_type = FILTER_TYPE_BY_POWER_PLANT
  /\ exp_args.selected_power_plants = JList(<<"Nowa Elektrownia">>)
  /\ exp_result = 0


\* the dtime of the record is missing, null or empty
DtimeUnset(item) == item.dtime.k \in {"absent", "null", "empty"}

\* the record contributes a timestamp: its dtime when that is set, its
\* dtime_utc only when dtime is unset
Contributes(item) ==
  IF DtimeUnset(item) THEN StrptimeOk(item.dtime_utc) ELSE StrptimeOk(item.dtime)

Contributed(item) ==
  IF DtimeUnset(item) THEN Strptime(item.dtime_utc) ELSE Strptime(item.dtime)

\* a record whose dtime is malformed and whose dtime_utc is valid
MalformedWithUtc ==
  Record(FStr(2024, 13, 1, 0, 0, 0), FStr(2024, 1, 2, 0, 0, 0))

\* C29: dtime_utc is used only when dtime is missing or empty; a record
\* whose dtime is present but malformed contributes no timestamp to
\* earliest, latest and the fraction, even when its dtime_utc is valid.
C29_UtcFallbackOnlyWhenUnset ==
  cov_applied =>
    LET idx == {i \in 1..Len(cov_data) : Contributes(cov_data[i])}
    IN  IF idx = {}
          THEN cov_result = [fraction |-> ZeroFrac, earliest |-> NoDt,
                             latest |-> NoDt]
          ELSE /\ \E i \in idx : Contributed(cov_data[i]) = cov_result.latest
               /\ \E i \in idx : Contributed(cov_data[i]) = cov_result.earliest
               /\ \A i \in idx :
                    /\ ~DtLess(cov_result.latest, Contributed(cov_data[i]))
                    /\ ~DtLess(Contributed(cov_data[i]), cov_result.earliest)

C29_Witness ==
  /\ cov_applied
  /\ Len(cov_data) = 2
  /\ cov_data[1] = Record(FStr(2024, 1, 1, 12, 0, 0), FStr(2024, 1, 1, 11, 0, 0))
  /\ cov_data[2] = MalformedWithUtc
  /\ cov_result.latest = Dt(toordinal(2024, 1, 1), 43200)
  /\ cov_result.earliest = Dt(toordinal(2024, 1, 1), 43200)


\* C30: non-empty all_data was fetched for the query stored in
\* query_params; what a run displays of all_data and of the new-labels
\* warning belongs to the query of its widgets, because a changed query
\* clears them before any display; a fetch that raises leaves all_data
\* unchanged.
C30_SessionDataMatchesQuery ==
  /\ session_all_data /= <<>> => data_query = query_params
  /\ (shown.count > 0 \/ shown.warning) => shown.data_query = shown.query
  /\ run_kind = "fetch_failed" => session_all_data = data_before

====
